---- MODULE Spec2Model ----
(***************************************************************************)
(* LiveCTD (src/script.js): the countdown renderer updateCountdown, the    *)
(* caller startCountdowns with its 1-second interval, and the              *)
(* DOMContentLoaded bootstrap, as a state machine over the page's DOM.     *)
(*                                                                         *)
(* Numbers.  A JavaScript Date is a count of milliseconds since the Unix   *)
(* epoch (about 1.77e12 for the target dates), beyond the 32-bit integers  *)
(* of the model checker.  A millisecond count x is therefore kept exactly, *)
(* as the record [s |-> x div 1000, ms |-> x mod 1000] with ms in 0..999   *)
(* (floor division, so a negative x has a negative s).  The operators      *)
(* MsSub, MsLe, MsFloorDiv and MsMod below are subtraction, comparison,    *)
(* Math.floor(x / k) and x % k on that representation.                     *)
(*                                                                         *)
(* Text.  A string is the sequence of its characters, each a one-character *)
(* string, so that String(n) and padStart are computed digit by digit.     *)
(***************************************************************************)
EXTENDS Integers, Sequences, FiniteSets, TLC

VARIABLES
    now,        \* the wall clock: what `new Date()` returns when next sampled
    page,       \* the hosting page: the ids of the elements it provides, and window.innerWidth
    dom,        \* textContent of every countdown element of the page
    uncaught,   \* TRUE once a TypeError has escaped a handler or a call
    call,       \* the arguments of a direct call of updateCountdown, and how often it ran
    pc,         \* position of the running task; "loading" before the page is ready, "idle" between tasks
    els,        \* the slot sets startCountdowns built (weddingEls, usaEls, dolomitesEls)
    timers,     \* the intervals registered with setInterval
    ran,        \* how often each bootstrap step has been entered
    rendered,   \* the tracked events rendered so far by the running task, in order
    last,       \* per tracked event: the clock sample of its latest render, whether that
                \* render found the target elapsed, the components it computed, and the
                \* earliest clock sample at which a render found the target elapsed
    particles,  \* particle elements appended to the particles container
    hearts      \* floating hearts currently in the particles container

vars == <<now, page, dom, uncaught, call, pc, els, timers, ran, rendered, last,
          particles, hearts>>

-----------------------------------------------------------------------------
(* Millisecond counts *)

MsPerSecond == 1000

Ms(sec, msec) == [s |-> sec, ms |-> msec]

\* a - b
MsSub(a, b) ==
    IF a.ms >= b.ms
    THEN [s |-> a.s - b.s, ms |-> a.ms - b.ms]
    ELSE [s |-> a.s - b.s - 1, ms |-> a.ms - b.ms + MsPerSecond]

\* a <= b
MsLe(a, b) == a.s < b.s \/ (a.s = b.s /\ a.ms <= b.ms)

\* a < b
MsLt(a, b) == a.s < b.s \/ (a.s = b.s /\ a.ms < b.ms)

MsZero == [s |-> 0, ms |-> 0]

\* Math.floor(x / k) for x >= 0 and k a positive multiple of 1000:
\* with x = 1000*s + ms and k = 1000*q, floor(x / k) = s div q.
MsFloorDiv(x, k) == x.s \div (k \div MsPerSecond)

\* x % k for x >= 0 and k a positive multiple of 1000: 1000*(s mod q) + ms.
MsMod(x, k) == [s |-> x.s % (k \div MsPerSecond), ms |-> x.ms]

-----------------------------------------------------------------------------
(* Target dates: new Date('YYYY-MM-DDThh:mm:ss+02:00') *)

\* days from 1970-01-01 to the civil date y-m-d (proleptic Gregorian calendar)
DaysFromCivil(y, m, d) ==
    LET yy  == IF m <= 2 THEN y - 1 ELSE y
        era == yy \div 400
        yoe == yy - era * 400
        mp  == IF m > 2 THEN m - 3 ELSE m + 9
        doy == (153 * mp + 2) \div 5 + d - 1
        doe == yoe * 365 + yoe \div 4 - yoe \div 100 + doy
    IN  era * 146097 + doe - 719468

\* the instant of an ISO-8601 date-time with a whole-hour UTC offset
DateParse(y, m, d, hh, mm, ss, offsetHours) ==
    Ms(DaysFromCivil(y, m, d) * 86400 + (hh - offsetHours) * 3600 + mm * 60 + ss, 0)

WEDDING_DATE == DateParse(2026, 3, 26, 17, 0, 0, 2)
USA_DATE == DateParse(2026, 6, 7, 0, 0, 0, 2)
DOLOMITES_DATE == DateParse(2026, 5, 4, 0, 0, 0, 2)

-----------------------------------------------------------------------------
(* Text *)

Digits == <<"0", "1", "2", "3", "4", "5", "6", "7", "8", "9">>

DigitChars == {Digits[i] : i \in 1..10}

\* String(n) for an integer n >= 0: its decimal digits
RECURSIVE NumberToString(_)
NumberToString(n) ==
    IF n < 10
    THEN <<Digits[n + 1]>>
    ELSE NumberToString(n \div 10) \o <<Digits[(n % 10) + 1]>>

\* the value of a digit character, and parseInt of a digit string
DigitValue(c) == CHOOSE k \in 0..9 : Digits[k + 1] = c

RECURSIVE ParseNumber(_)
ParseNumber(text) ==
    IF Len(text) = 0
    THEN 0
    ELSE ParseNumber(SubSeq(text, 1, Len(text) - 1)) * 10 + DigitValue(text[Len(text)])

IsNumeric(text) == Len(text) >= 1 /\ \A i \in 1..Len(text) : text[i] \in DigitChars

\* str.padStart(targetLength, padChar) for a one-character pad string
PadStartNone(str, targetLength, padChar) == str

RECURSIVE PadStart(_, _, _)
PadStart(str, targetLength, padChar) ==
    IF Len(str) >= targetLength
    THEN str
    ELSE PadStart(<<padChar>> \o str, targetLength, padChar)

\* the completion marker (one code point, U+1F389)
CompletionMarker == <<"PARTY_POPPER">>

\* what an element shows before the script has written it
Placeholder == <<"-", "-">>

-----------------------------------------------------------------------------
(* updateCountdown(targetDate, elements) *)

NULL == "null"
UNDEFINED == "undefined"

Units == <<"days", "hours", "minutes", "seconds">>

\* elements.key : undefined when the object has no such key
Prop(elements, key) == IF key \in DOMAIN elements THEN elements[key] ELSE UNDEFINED

\* truthiness of an element reference
Truthy(el) == el \notin {NULL, UNDEFINED}

\* el.textContent = text, on the pair [dom, raised]; a TypeError when el is
\* null or undefined, after which nothing more of the running code executes
AssignTextAppend(st, el, text) ==
    IF st.raised THEN st
    ELSE IF ~Truthy(el) THEN [st EXCEPT !.raised = TRUE]
    ELSE [st EXCEPT !.dom[el] = @ \o text]

AssignText(st, el, text) ==
    IF st.raised THEN st
    ELSE IF ~Truthy(el) THEN [st EXCEPT !.raised = TRUE]
    ELSE [st EXCEPT !.dom[el] = text]

\* if (el) el.textContent = text
SetIfPresentUnguarded(st, el, text) == AssignText(st, el, text)

SetIfPresent(st, el, text) == IF Truthy(el) THEN AssignText(st, el, text) ELSE st

\* diff <= 0
IsElapsedStrict(diff) == MsLt(diff, MsZero)

IsElapsed(diff) == MsLe(diff, MsZero)

\* the four components, for diff > 0
DaysOf(diff) == MsFloorDiv(diff, 1000 * 60 * 60 * 24)

HoursOfNoWrap(diff) == MsFloorDiv(diff, 1000 * 60 * 60)

HoursOfCopied(diff) == MsFloorDiv(MsMod(diff, 1000 * 60 * 60), 1000 * 60)

HoursOf(diff) == MsFloorDiv(MsMod(diff, 1000 * 60 * 60 * 24), 1000 * 60 * 60)

MinutesOf(diff) == MsFloorDiv(MsMod(diff, 1000 * 60 * 60), 1000 * 60)

SecondsOf(diff) == MsFloorDiv(MsMod(diff, 1000 * 60), 1000)

Components(diff) == <<DaysOf(diff), HoursOf(diff), MinutesOf(diff), SecondsOf(diff)>>

\* String(value).padStart(2, '0')
Format(value) == PadStart(NumberToString(value), 2, "0")

\* Object.values(elements).forEach(el => { if (el) el.textContent = marker })
\* over the object's own keys in insertion order (days, hours, minutes, seconds)
MarkAllDaysOnly(st, elements, i) == SetIfPresent(st, Prop(elements, "days"), CompletionMarker)

RECURSIVE MarkAll(_, _, _)
MarkAll(st, elements, i) ==
    IF i > Len(Units) THEN st
    ELSE IF Units[i] \in DOMAIN elements
         THEN MarkAll(SetIfPresent(st, elements[Units[i]], CompletionMarker), elements, i + 1)
         ELSE MarkAll(st, elements, i + 1)

\* the numeric branch: one guarded write per unit, in the order of the source
RECURSIVE WriteUnits(_, _, _, _)
WriteUnits(st, elements, values, i) ==
    IF i > Len(Units) THEN st
    ELSE WriteUnits(SetIfPresent(st, Prop(elements, Units[i]), Format(values[i])),
                    elements, values, i + 1)

\* the call, with `clock` the value `new Date()` returns: the DOM after it and
\* whether it raised
updateCountdown(targetDate, elements, clock, d) ==
    LET diff == MsSub(targetDate, clock)
        st   == [dom |-> d, raised |-> FALSE]
    IN  IF IsElapsed(diff)
        THEN MarkAll(st, elements, 1)
        ELSE WriteUnits(st, elements, Components(diff), 1)

-----------------------------------------------------------------------------
(* The hosting page and startCountdowns' slot sets *)

\* document.getElementById(id)
getElementById(id) == IF id \in page.ids THEN id ELSE NULL

WeddingIds ==
    [days |-> "wDays", hours |-> "wHours", minutes |-> "wMinutes", seconds |-> "wSeconds"]

UsaIds == [days |-> "uDays", hours |-> "uHours", minutes |-> "uMinutes"]

DolomitesIdsCopied == [days |-> "uDays", hours |-> "dHours", minutes |-> "dMinutes"]

DolomitesIds == [days |-> "dDays", hours |-> "dHours", minutes |-> "dMinutes"]

\* the tracked events, in the order startCountdowns renders them at once
Events == <<"wedding", "usa", "dolomites">>

\* the order of the interval callback
TickOrderSwapped == <<"wedding", "dolomites", "usa">>

TickOrder == <<"wedding", "usa", "dolomites">>

EventSet == {Events[i] : i \in 1..Len(Events)}

TargetOf(e) ==
    CASE e = "wedding" -> WEDDING_DATE
      [] e = "usa" -> USA_DATE
      [] e = "dolomites" -> DOLOMITES_DATE

IdsOf(e) ==
    CASE e = "wedding" -> WeddingIds
      [] e = "usa" -> UsaIds
      [] e = "dolomites" -> DolomitesIds

\* { days: document.getElementById(...), ... }
LookUp(ids) == [k \in DOMAIN ids |-> getElementById(ids[k])]

CountdownIds ==
    {IdsOf(e)[k] : e \in EventSet, k \in {"days", "hours", "minutes"}} \cup {"wSeconds"}

\* the elements a slot set holds
PresentIds(elements) == {elements[k] : k \in DOMAIN elements} \ {NULL, UNDEFINED}

-----------------------------------------------------------------------------
(* Bounds and inputs *)

\* direct calls of updateCountdown in one run of SpecFn
MaxCalls == 2

\* floating hearts alive at once
MaxHearts == 1

\* a duration of d days, h hours, m minutes, s seconds and msec milliseconds
Dur(d, h, m, s, msec) == Ms(((d * 24 + h) * 60 + m) * 60 + s, msec)

\* the values of targetDate - now a direct call is tried on: zero, negative, and
\* every combination of small, boundary and three-digit components
FnDiffs ==
    {Dur(d, h, m, s, msec) : d \in {0, 1, 10, 123}, h \in {0, 1, 23}, m \in {0, 1, 59},
                             s \in {0, 1, 59}, msec \in {0, 999}}
    \cup {Ms(-5, 0), Ms(-1, 999)}

\* every slot set over the four units: each key missing, null, or its element
SlotSets ==
    {f \in UNION {[K -> {NULL} \cup {WeddingIds[k] : k \in K}] : K \in SUBSET DOMAIN WeddingIds} :
        \A k \in DOMAIN f : f[k] \in {NULL, WeddingIds[k]}}

\* the clock samples of the page's run: one hour before the wedding, one minute
\* before the wedding, at the wedding exactly, between the later targets, past all
ClockSamples ==
    {MsSub(WEDDING_DATE, Dur(0, 1, 0, 0, 0)),
     MsSub(WEDDING_DATE, Dur(0, 0, 1, 0, 0)),
     WEDDING_DATE,
     MsSub(DOLOMITES_DATE, Ms(-5, 0)),
     MsSub(USA_DATE, Ms(-5, 0))}

AllIds == CountdownIds \cup {"particles"}

\* the hosting pages tried: complete (narrow and wide), without the particles
\* container, with units missing, and with no countdown element at all
Pages ==
    {[ids |-> AllIds, innerWidth |-> 1280],
     [ids |-> AllIds, innerWidth |-> 390],
     [ids |-> CountdownIds, innerWidth |-> 1280],
     [ids |-> AllIds \ {"wMinutes", "wSeconds", "uMinutes", "dDays"}, innerWidth |-> 390],
     [ids |-> {"particles"}, innerWidth |-> 1280]}

\* no instant (-1 is no millisecond part)
NoSample == [s |-> 0, ms |-> -1]
NoCall == [targetDate |-> NoSample, elements |-> <<>>, count |-> 0]
NeverRendered == [at |-> NoSample, elapsed |-> FALSE, values |-> <<>>, elapsedAt |-> NoSample]

BootstrapSteps ==
    <<"createParticles", "createFloatingHearts", "startCountdowns", "initScrollReveal",
      "bustImageCache">>

-----------------------------------------------------------------------------
(* Direct calls of updateCountdown: SpecFn *)

InitFn ==
    /\ page = [ids |-> {WeddingIds[k] : k \in DOMAIN WeddingIds}, innerWidth |-> 1280]
    /\ dom = [id \in page.ids |-> Placeholder]
    /\ \E t \in {WEDDING_DATE, USA_DATE, DOLOMITES_DATE}, elements \in SlotSets, diff \in FnDiffs :
          /\ call = [targetDate |-> t, elements |-> elements, count |-> 0]
          /\ now = MsSub(t, diff)
    /\ uncaught = FALSE
    /\ pc = "idle"
    /\ els = <<>>
    /\ timers = {}
    /\ ran = [step \in {} |-> 0]
    /\ rendered = <<>>
    /\ last = <<>>
    /\ particles = 0
    /\ hearts = 0

\* updateCountdown(call.targetDate, call.elements), the clock standing at `now`
FnCall ==
    /\ call.count < MaxCalls
    /\ ~uncaught
    /\ LET r == updateCountdown(call.targetDate, call.elements, now, dom)
       IN  /\ dom' = r.dom
           /\ uncaught' = r.raised
    /\ call' = [call EXCEPT !.count = @ + 1]
    /\ UNCHANGED <<now, page, pc, els, timers, ran, rendered, last, particles, hearts>>

NextFn == FnCall

SpecFn == InitFn /\ [][NextFn]_vars

-----------------------------------------------------------------------------
(* The page's run: Spec *)

Init ==
    /\ page \in Pages
    /\ dom = [id \in page.ids \cap CountdownIds |-> Placeholder]
    /\ now \in ClockSamples
    /\ uncaught = FALSE
    /\ call = NoCall
    /\ pc = "loading"
    /\ els = <<>>
    /\ timers = {}
    /\ ran = [i \in 1..Len(BootstrapSteps) |-> 0]
    /\ rendered = <<>>
    /\ last = [e \in EventSet |-> NeverRendered]
    /\ particles = 0
    /\ hearts = 0

\* ran with one more entry of bootstrap step `name`
Entered(name) ==
    LET i == CHOOSE j \in 1..Len(BootstrapSteps) : BootstrapSteps[j] = name
    IN  [ran EXCEPT ![i] = @ + 1]

\* the system clock moves between two samples; `new Date()` is the wall clock,
\* which the host may also set back
ClockChange ==
    /\ now' \in ClockSamples \ {now}
    /\ UNCHANGED <<page, dom, uncaught, call, pc, els, timers, ran, rendered, last,
                   particles, hearts>>

\* the page becomes ready: the DOMContentLoaded listener starts, once
DOMContentLoaded ==
    /\ pc = "loading"
    /\ pc' = "createParticles"
    /\ UNCHANGED <<now, page, dom, uncaught, call, els, timers, ran, rendered, last,
                   particles, hearts>>

\* createParticles(): 30 or 60 times container.appendChild(particle); with no
\* 'particles' element the container is null and the first appendChild raises
\* a TypeError, which ends the listener
createParticles ==
    /\ pc = "createParticles"
    /\ ran' = Entered("createParticles")
    /\ LET container == getElementById("particles")
           count     == IF page.innerWidth < 768 THEN 30 ELSE 60
       IN  IF Truthy(container)
           THEN /\ particles' = count
                /\ pc' = "createFloatingHearts"
                /\ UNCHANGED uncaught
           ELSE /\ uncaught' = TRUE
                /\ pc' = "idle"
                /\ UNCHANGED particles
    /\ UNCHANGED <<now, page, dom, call, els, timers, rendered, last, hearts>>

\* createFloatingHearts(): setInterval(spawnHeart, 800)
createFloatingHearts ==
    /\ pc = "createFloatingHearts"
    /\ ran' = Entered("createFloatingHearts")
    /\ timers' = timers \cup {"spawnHeart"}
    /\ pc' = "startCountdowns"
    /\ UNCHANGED <<now, page, dom, uncaught, call, els, rendered, last, particles, hearts>>

\* startCountdowns(), up to its first render: the three slot sets are looked up
startCountdowns ==
    /\ pc = "startCountdowns"
    /\ ran' = Entered("startCountdowns")
    /\ els' = [e \in EventSet |-> LookUp(IdsOf(e))]
    /\ rendered' = <<>>
    /\ pc' = "updateImmediately"
    /\ UNCHANGED <<now, page, dom, uncaught, call, timers, last, particles, hearts>>

\* one call updateCountdown(TargetOf(e), els[e]) of the running task: the clock
\* is sampled, the slots are written; a TypeError would end the task
Render(e) ==
    LET r    == updateCountdown(TargetOf(e), els[e], now, dom)
        diff == MsSub(TargetOf(e), now)
        gone == IsElapsed(diff)
    IN  /\ dom' = r.dom
        /\ uncaught' = (uncaught \/ r.raised)
        /\ rendered' = Append(rendered, e)
        /\ last' = [last EXCEPT ![e] =
                      [at |-> now,
                       elapsed |-> gone,
                       values |-> IF gone THEN <<>> ELSE Components(diff),
                       elapsedAt |-> IF gone /\ (@.elapsedAt = NoSample \/ MsLt(now, @.elapsedAt))
                                     THEN now ELSE @.elapsedAt]]
        /\ pc' = IF r.raised THEN "idle" ELSE pc

\* startCountdowns(), "Update immediately": the next of its three calls
UpdateImmediately ==
    /\ pc = "updateImmediately"
    /\ Len(rendered) < Len(Events)
    /\ Render(Events[Len(rendered) + 1])
    /\ UNCHANGED <<now, page, call, els, timers, ran, particles, hearts>>

\* startCountdowns(), "Update every second": setInterval(..., 1000), and return
UpdateEverySecond ==
    /\ pc = "updateImmediately"
    /\ Len(rendered) = Len(Events)
    /\ timers' = timers \cup {"countdowns"}
    /\ pc' = "initScrollReveal"
    /\ UNCHANGED <<now, page, dom, uncaught, call, els, ran, rendered, last, particles, hearts>>

\* initScrollReveal(): the observer is created and the trip cards observed
initScrollReveal ==
    /\ pc = "initScrollReveal"
    /\ ran' = Entered("initScrollReveal")
    /\ pc' = "bustImageCache"
    /\ UNCHANGED <<now, page, dom, uncaught, call, els, timers, rendered, last, particles, hearts>>

\* bustImageCache(): the two image URLs are rewritten where the images exist;
\* the listener returns
bustImageCache ==
    /\ pc = "bustImageCache"
    /\ ran' = Entered("bustImageCache")
    /\ pc' = "idle"
    /\ UNCHANGED <<now, page, dom, uncaught, call, els, timers, rendered, last, particles, hearts>>

\* the 1-second interval fires: its callback starts; a timer task starts only
\* when no task is running (run to completion)
IntervalFires ==
    /\ pc = "idle"
    /\ "countdowns" \in timers
    /\ rendered' = <<>>
    /\ pc' = "everySecond"
    /\ UNCHANGED <<now, page, dom, uncaught, call, els, timers, ran, last, particles, hearts>>

\* the interval callback: the next of its three calls
EverySecond ==
    /\ pc = "everySecond"
    /\ Len(rendered) < Len(TickOrder)
    /\ Render(TickOrder[Len(rendered) + 1])
    /\ UNCHANGED <<now, page, call, els, timers, ran, particles, hearts>>

\* the interval callback returns
EverySecondReturns ==
    /\ pc = "everySecond"
    /\ Len(rendered) = Len(TickOrder)
    /\ pc' = "idle"
    /\ UNCHANGED <<now, page, dom, uncaught, call, els, timers, ran, rendered, last,
                   particles, hearts>>

\* the 800 ms interval fires: spawnHeart() appends one heart to the container
spawnHeart ==
    /\ pc = "idle"
    /\ "spawnHeart" \in timers
    /\ hearts < MaxHearts
    /\ IF Truthy(getElementById("particles"))
       THEN hearts' = hearts + 1 /\ UNCHANGED uncaught
       ELSE uncaught' = TRUE /\ UNCHANGED hearts
    /\ UNCHANGED <<now, page, dom, call, pc, els, timers, ran, rendered, last, particles>>

\* a heart's animation ends: heart.remove()
animationend ==
    /\ pc = "idle"
    /\ hearts > 0
    /\ hearts' = hearts - 1
    /\ UNCHANGED <<now, page, dom, uncaught, call, pc, els, timers, ran, rendered, last,
                   particles>>

Next ==
    \/ ClockChange
    \/ DOMContentLoaded
    \/ createParticles
    \/ createFloatingHearts
    \/ startCountdowns
    \/ UpdateImmediately
    \/ UpdateEverySecond
    \/ initScrollReveal
    \/ bustImageCache
    \/ IntervalFires
    \/ EverySecond
    \/ EverySecondReturns
    \/ spawnHeart
    \/ animationend

Spec == Init /\ [][Next]_vars

-----------------------------------------------------------------------------
(* Properties of a direct call (SpecFn) *)

\* targetDate - now of the direct call
CallDiff == MsSub(call.targetDate, now)

\* the text a unit's slot shows, for a unit whose slot is present
SlotText(elements, unit, d) == d[Prop(elements, unit)]

AllPresent(elements) == \A i \in 1..Len(Units) : Truthy(Prop(elements, Units[i]))

\* C1: for diff = target - now > 0 the call computes days >= 0, hours in 0..23,
\* minutes in 0..59 and seconds in 0..59 (the numbers its present slots then
\* show) with days*86400000 + hours*3600000 + minutes*60000 + seconds*1000
\* at most diff and less than 1000 ms below it.
C1_Decomposition ==
    (call.count >= 1 /\ MsLt(MsZero, CallDiff)) =>
        LET d == DaysOf(CallDiff)
            h == HoursOf(CallDiff)
            m == MinutesOf(CallDiff)
            s == SecondsOf(CallDiff)
            total == Ms(d * 86400 + h * 3600 + m * 60 + s, 0)
        IN  /\ d >= 0 /\ h \in 0..23 /\ m \in 0..59 /\ s \in 0..59
            /\ MsLe(total, CallDiff)
            /\ MsLt(MsSub(CallDiff, total), Ms(1, 0))
            /\ \A i \in 1..Len(Units) :
                  Truthy(Prop(call.elements, Units[i])) =>
                      ParseNumber(SlotText(call.elements, Units[i], dom)) = <<d, h, m, s>>[i]

C1_Witness ==
    /\ call.count >= 1
    /\ CallDiff = Dur(123, 23, 59, 59, 999)
    /\ AllPresent(call.elements)
    /\ dom["wHours"] = <<"2", "3">>

\* C2: for target - now <= 0, zero included, every present slot shows the
\* completion marker and no element shows a number.
C2_ElapsedMarker ==
    (call.count >= 1 /\ MsLe(CallDiff, MsZero)) =>
        /\ \A id \in PresentIds(call.elements) : dom[id] = CompletionMarker
        /\ \A id \in DOMAIN dom : ~IsNumeric(dom[id])

C2_Witness ==
    /\ call.count >= 1
    /\ CallDiff = MsZero
    /\ AllPresent(call.elements)
    /\ \A id \in DOMAIN dom : dom[id] = CompletionMarker

\* C3: a call on a slot set with absent units (key missing or element null)
\* does not raise, leaves every present slot written (marker or number) and
\* leaves every other element as it was; with only days and hours present
\* the minutes and seconds elements are never written.
C3_PartialSlotSets ==
    [][call'.count = call.count + 1 =>
          /\ ~uncaught'
          /\ \A id \in PresentIds(call.elements) :
                dom'[id] = CompletionMarker \/ IsNumeric(dom'[id])
          /\ \A id \in DOMAIN dom \ PresentIds(call.elements) : dom'[id] = dom[id]
          /\ PresentIds(call.elements) \subseteq {"wDays", "wHours"} =>
                dom'["wMinutes"] = Placeholder /\ dom'["wSeconds"] = Placeholder]_vars

C3_Witness ==
    /\ call.count >= 1
    /\ ~uncaught
    /\ DOMAIN call.elements = {"days", "hours", "minutes"}
    /\ call.elements["minutes"] = NULL
    /\ PresentIds(call.elements) = {"wDays", "wHours"}
    /\ MsLt(MsZero, CallDiff)
    /\ IsNumeric(dom["wDays"]) /\ IsNumeric(dom["wHours"])
    /\ dom["wMinutes"] = Placeholder /\ dom["wSeconds"] = Placeholder

\* C4: for diff > 0 each present slot shows the decimal digits of its
\* component, padded with '0' to two characters when the value is 0..9 and
\* in full, with no padding and no truncation, when it is 10 or more
\* (days = 123 shows "123"); diff = 90061000 ms shows "01" in all four.
C4_Padding ==
    (call.count >= 1 /\ MsLt(MsZero, CallDiff)) =>
        \A i \in 1..Len(Units) :
            Truthy(Prop(call.elements, Units[i])) =>
                LET text == SlotText(call.elements, Units[i], dom)
                    v    == Components(CallDiff)[i]
                IN  /\ IsNumeric(text)
                    /\ ParseNumber(text) = v
                    /\ Len(text) >= 2
                    /\ v <= 9 => (Len(text) = 2 /\ text[1] = "0")
                    /\ v >= 10 => text[1] # "0"
                    /\ v = 123 => text = <<"1", "2", "3">>
                    /\ CallDiff = Ms(90061, 0) => text = <<"0", "1">>

C4_Witness ==
    /\ call.count >= 1
    /\ CallDiff = Ms(90061, 0)
    /\ AllPresent(call.elements)
    /\ \A id \in DOMAIN dom : dom[id] = <<"0", "1">>

\* C6: a second call with the same target, slot set and clock sample leaves
\* the elements as the first call left them, elapsed or not.
C6_Idempotent ==
    [][(call.count >= 1 /\ call'.count = call.count + 1) =>
          (dom' = dom /\ uncaught' = uncaught)]_vars

C6_Witness ==
    /\ call.count >= 2
    /\ AllPresent(call.elements)
    /\ CallDiff = Dur(10, 1, 0, 59, 999)
    /\ dom["wDays"] = <<"1", "0">>

-----------------------------------------------------------------------------
(* Properties of the page's run (Spec) *)

\* this step is a render of tracked event e
RenderStep(e) == rendered' = Append(rendered, e)

\* the elements of e's slot set all show the marker, or all show numbers, in d
AllMarker(e, d) == \A id \in PresentIds(els[e]) : d[id] = CompletionMarker

AllNumeric(e, d) == \A id \in PresentIds(els[e]) : IsNumeric(d[id])

\* the countdown interval, once registered, stays registered, and whenever no
\* task is running its callback can start
TimerKeepsRunning ==
    /\ []((pc = "idle" /\ "countdowns" \in timers) => ENABLED IntervalFires)
    /\ [][("countdowns" \in timers) => ("countdowns" \in timers')]_vars

\* C5, as claimed: once a render of an event has found it elapsed, every
\* later render of that event writes the marker to all its present slots,
\* and the timer keeps running.
C5_OnceElapsedAlwaysMarker ==
    /\ [][\A e \in EventSet :
            (last[e].elapsedAt # NoSample /\ RenderStep(e)) => AllMarker(e, dom')]_vars
    /\ TimerKeepsRunning

\* C5, amended: once a render of an event has found it elapsed, every later
\* render of that event whose clock sample is not earlier than that render's
\* (every later render, on a clock that is not set back) writes the marker to
\* all its present slots; the timer is never cancelled and keeps firing.
C5_ElapsedStaysWhileClockNotSetBack ==
    /\ [][\A e \in EventSet :
            (/\ last[e].elapsedAt # NoSample
             /\ MsLe(last[e].elapsedAt, now)
             /\ RenderStep(e)) => (AllMarker(e, dom') /\ last'[e].elapsed)]_vars
    /\ TimerKeepsRunning

C5_Witness ==
    /\ pc = "everySecond"
    /\ rendered = <<"wedding">>
    /\ last["wedding"].elapsedAt = WEDDING_DATE
    /\ last["wedding"].at = MsSub(DOLOMITES_DATE, Ms(-5, 0))
    /\ PresentIds(els["wedding"]) = {"wDays", "wHours", "wMinutes", "wSeconds"}
    /\ AllMarker("wedding", dom)

\* C7: once the page is ready the listener runs each of its five steps exactly
\* once, whatever elements the page provides, so when it has ended the
\* countdown interval is registered.
C7_BootstrapRunsEveryStepOnce ==
    /\ \A i \in 1..Len(BootstrapSteps) : ran[i] <= 1
    /\ (pc = "idle") =>
          /\ \A i \in 1..Len(BootstrapSteps) : ran[i] = 1
          /\ "countdowns" \in timers

\* C8: startCountdowns renders the three events once each, in the order
\* wedding, USA, Dolomites, before it registers the interval, hence before
\* the first tick; every run of the interval callback renders each event
\* exactly once in that order; a running task is never interleaved with
\* another handler; the interval is never cancelled.
C8_RenderSchedule ==
    [][/\ ("countdowns" \notin timers /\ "countdowns" \in timers') => rendered = Events
       /\ (pc # "everySecond" /\ pc' = "everySecond") =>
             /\ pc = "idle"
             /\ \A e \in EventSet : last[e].at # NoSample
       /\ (pc = "everySecond" /\ pc' # "everySecond") => (pc' = "idle" /\ rendered = Events)
       /\ (\E e \in EventSet : RenderStep(e)) =>
             /\ pc \in {"updateImmediately", "everySecond"}
             /\ pc' = pc
             /\ rendered' = SubSeq(Events, 1, Len(rendered'))
       /\ pc \in {"updateImmediately", "everySecond"} =>
             /\ hearts' = hearts
             /\ rendered' = rendered \/ (\E e \in EventSet : RenderStep(e))
       /\ ("countdowns" \in timers) => ("countdowns" \in timers')]_vars

C8_Witness ==
    /\ pc = "everySecond"
    /\ rendered = Events
    /\ "countdowns" \in timers
    /\ hearts = 1

\* C9: the slot sets of the tracked events are pairwise disjoint, and a render
\* of one event leaves every element outside that event's slot set unchanged
\* and writes its own slots with what the target and the clock sample alone
\* determine, whatever the earlier renders left in the page.
C9_RendersIndependent ==
    /\ [](\A e1 \in DOMAIN els, e2 \in DOMAIN els :
             e1 # e2 => PresentIds(els[e1]) \cap PresentIds(els[e2]) = {})
    /\ [][\A e \in EventSet :
            RenderStep(e) =>
                /\ \A id \in DOMAIN dom \ PresentIds(els[e]) : dom'[id] = dom[id]
                /\ \A id \in PresentIds(els[e]) :
                      dom'[id] = updateCountdown(TargetOf(e), LookUp(IdsOf(e)), now,
                                                 [i \in DOMAIN dom |-> Placeholder]).dom[id]]_vars

C9_Witness ==
    /\ pc = "everySecond"
    /\ rendered = <<"wedding", "usa">>
    /\ page.ids = AllIds
    /\ AllMarker("wedding", dom)
    /\ AllNumeric("usa", dom)
    /\ AllMarker("dolomites", dom)

\* lexicographic a <= b on tuples of equal length
RECURSIVE LexLe(_, _)
LexLe(a, b) ==
    IF Len(a) = 0 THEN TRUE
    ELSE IF a[1] # b[1] THEN a[1] < b[1]
    ELSE LexLe(Tail(a), Tail(b))

\* C10: between two successive renders of an event that both find it not
\* elapsed, the second at a clock sample not earlier than the first, the
\* tuple (days, hours, minutes, seconds) does not go up; and once an event
\* has been rendered its present slots show all the marker or all numbers.
C10_CountdownNeverGoesUp ==
    /\ [](\A e \in DOMAIN els :
             last[e].at # NoSample => (AllMarker(e, dom) \/ AllNumeric(e, dom)))
    /\ [][\A e \in EventSet :
            (/\ RenderStep(e)
             /\ last[e].at # NoSample
             /\ MsLe(last[e].at, now)
             /\ ~last[e].elapsed
             /\ ~last'[e].elapsed) => LexLe(last'[e].values, last[e].values)]_vars

C10_Witness ==
    /\ pc = "everySecond"
    /\ page.ids = AllIds
    /\ rendered = <<"wedding">>
    /\ last["usa"].at = MsSub(WEDDING_DATE, Dur(0, 1, 0, 0, 0))
    /\ last["wedding"].at = MsSub(WEDDING_DATE, Dur(0, 0, 1, 0, 0))
    /\ last["wedding"].values = <<0, 0, 1, 0>>
    /\ dom["wDays"] = <<"0", "0">> /\ dom["wHours"] = <<"0", "0">>
    /\ dom["wMinutes"] = <<"0", "1">> /\ dom["wSeconds"] = <<"0", "0">>

====
